---- MODULE Spec2Model ----
(***************************************************************************)
(* Post-processing of a parameter sweep: post_processing.py (the driver    *)
(* and the aggregations), graph_storer.py (pivot + heatmap / contour) and  *)
(* route_storer.py (projection and the route figure).                     *)
(*                                                                         *)
(* A DataFrame is a sequence of records; every record carries its index   *)
(* label in the field "index".  read_csv numbers the rows 0,1,2,...; the  *)
(* model numbers them 1,2,3,... (the position in the sequence).           *)
(* A written file is an entry of the log `data`: the path, and what was   *)
(* drawn.  Rendering a pivoted grid (sns.heatmap, plt.contourf) and       *)
(* plt.savefig are taken to succeed; what they draw is the grid.  The     *)
(* checked tables are those whose grid has two rows and two columns, the  *)
(* least plt.contourf draws.                                               *)
(***************************************************************************)
EXTENDS Integers, Sequences, FiniteSets, TLC

VARIABLES
    csv,        \* the input table file: the rows of data/<input_name>.csv
    locations,  \* the locations file: [valid, orders]
    call,       \* arguments of a direct call of a component (route / table)
    pc,         \* position of the run
    df,         \* post_process: the frame read from the csv
    success_df, \* post_process: df[df["relative_cost"] != -1]
    idx,        \* best: the index labels returned by idxmin
    handed,     \* the frames handed to the Grid Plotter, in call order
    data,       \* the files written under data/, in write order
    fig,        \* the figure create_graph is drawing / drew last
    k,          \* visualise_deliveries: number of rows iterated so far
    err         \* the exception that ended the run ("" while none)

vars == <<csv, locations, call, pc, df, success_df, idx, handed, data, fig, k, err>>

----------------------------------------------------------------------------
(* Bounds of the checked inputs *)

MaxRows == 3         \* freely chosen rows of the input table (aggregation runs)
MaxCost == 1         \* relative_cost ranges over -1..MaxCost
MaxRunRows == 2      \* freely chosen rows of the input table (rendering runs)
MaxOrders == 2       \* entries of the locations file (create_graph calls)
MaxRouteLen == 3     \* stops of a route (create_graph calls)
MaxTableRows == 3    \* rows of a table given directly to the Grid Plotter

Cells == {<<1, 1>>, <<1, 2>>, <<2, 1>>}   \* swept (ratio, strength) pairs
RunCells == {<<1, 1>>, <<2, 2>>}
Trials == {0, 1}
RunCosts == {-1, 1}
Lats == {-32, -31}
Lons == {115, 116}
OrderIds == {1, 2}       \* order_ids of the locations file
RouteIds == {1, 2, 3}    \* ids a route may name (3 is never an order_id)
RunRoutes == {<<1, 2>>, <<2, 1>>, <<1, 3>>}
PlotKeys == {1, 2}
PlotValues == {5, 7}

OutputFile == "test1"    \* sys.argv[2]

----------------------------------------------------------------------------
(* Helpers *)

Range(s) == {s[i] : i \in DOMAIN s}

SeqsUpTo(S, n) == UNION {[1..m -> S] : m \in 0..n}

Abs(n) == IF n < 0 THEN -n ELSE n

RECURSIVE GCD(_, _)
GCD(a, b) == IF b = 0 THEN a ELSE GCD(b, a % b)

RECURSIVE SortedSeq(_)
SortedSeq(S) ==
    IF S = {} THEN <<>>
    ELSE LET m == CHOOSE x \in S : \A y \in S : x <= y
         IN  <<m>> \o SortedSeq(S \ {m})

KeyLeq(a, b) == a[1] < b[1] \/ (a[1] = b[1] /\ a[2] <= b[2])

RECURSIVE SortedKeys(_)
SortedKeys(S) ==
    IF S = {} THEN <<>>
    ELSE LET m == CHOOSE x \in S : \A y \in S : KeyLeq(x, y)
         IN  <<m>> \o SortedKeys(S \ {m})

RECURSIVE SumCost(_)
SumCost(g) == IF g = <<>> THEN 0 ELSE Head(g).relative_cost + SumCost(Tail(g))

----------------------------------------------------------------------------
(* pandas frames *)

\* pd.read_csv: the rows of the file under a fresh RangeIndex
read_csv(rows) ==
    [i \in 1..Len(rows) |->
        [index |-> i,
         cost_constraint_ratio |-> rows[i].cost_constraint_ratio,
         chain_strength |-> rows[i].chain_strength,
         trial |-> rows[i].trial,
         relative_cost |-> rows[i].relative_cost,
         route |-> rows[i].route]]

\* Faulty variant: keeps every record, failed ones included
Unfiltered(frame) == frame

\* df[df["relative_cost"] != -1]: boolean-mask selection keeps order and labels
Successful(frame) == SelectSeq(frame, LAMBDA r : r.relative_cost # -1)

Key(r) == <<r.cost_constraint_ratio, r.chain_strength>>

\* groupby(["cost_constraint_ratio", "chain_strength"]): the observed keys, sorted
GroupKeys(frame) == SortedKeys({Key(r) : r \in Range(frame)})

\* the rows of one group, in frame order
Group(frame, key) == SelectSeq(frame, LAMBDA r : Key(r) = key)

\* "mean": sum / count, kept exact as a reduced fraction <<num, den>>
Mean(g) ==
    LET s == SumCost(g)
        n == Len(g)
        d == GCD(Abs(s), n)
    IN  <<s \div d, n \div d>>

\* Series.idxmin of one group: the label of the first occurrence of the minimum
RECURSIVE IdxMinFrom(_, _, _)
IdxMinFrom(g, i, best) ==
    IF i > Len(g) THEN g[best].index
    ELSE IdxMinFrom(g, i + 1,
            IF g[i].relative_cost < g[best].relative_cost THEN i ELSE best)

\* frame.loc[labels]: for each label in turn, the rows carrying it
RECURSIVE LocRows(_, _)
LocRows(frame, labels) ==
    IF labels = <<>> THEN <<>>
    ELSE SelectSeq(frame, LAMBDA x : x.index = Head(labels))
            \o LocRows(frame, Tail(labels))

\* .reset_index(drop=True)
reset_index(frame) == [j \in 1..Len(frame) |-> [frame[j] EXCEPT !.index = j]]

----------------------------------------------------------------------------
(* post_processing.py: the aggregations *)

\* groupby(...).agg({"relative_cost": "mean"}).reset_index()
average_df(frame) ==
    LET keys == GroupKeys(frame)
    IN  [j \in 1..Len(keys) |->
            [index |-> j,
             cost_constraint_ratio |-> keys[j][1],
             chain_strength |-> keys[j][2],
             relative_cost |-> Mean(Group(frame, keys[j]))]]

\* Faulty variant: keeps the last occurrence of the minimum
IdxMinLast(g) ==
    LET m == CHOOSE i \in DOMAIN g :
                /\ \A j \in DOMAIN g : g[i].relative_cost <= g[j].relative_cost
                /\ \A j \in DOMAIN g :
                      g[j].relative_cost = g[i].relative_cost => j <= i
    IN  g[m].index

IdxMin(g) == IdxMinFrom(g, 2, 1)

\* groupby(...)["relative_cost"].idxmin(): one label per group, in key order
best_idx(frame) ==
    LET keys == GroupKeys(frame)
    IN  [j \in 1..Len(keys) |-> IdxMin(Group(frame, keys[j]))]

\* Faulty variant: keeps every record that reaches its group's minimum
AllMinimal(frame, labels) ==
    reset_index(SelectSeq(frame, LAMBDA x :
        \A y \in Range(frame) :
            Key(y) = Key(x) => x.relative_cost <= y.relative_cost))

\* success_df.loc[idx].reset_index(drop=True)
min_relative_cost_df(frame, labels) == reset_index(LocRows(frame, labels))

\* Faulty variant: counts the records that did not fail
NotFailed(frame) == SelectSeq(frame, LAMBDA x : x.relative_cost # -1)

\* df[df["relative_cost"] == -1]
Failed(frame) == SelectSeq(frame, LAMBDA x : x.relative_cost = -1)

\* Faulty variant: plots the failures table whether or not it is empty
AlwaysPlot(frame) == TRUE

\* if not failed_routes_df.empty
not_empty(frame) == frame # <<>>

\* groupby(...).size().reset_index(name="failed_routes_count")
failed_routes_count(frame) ==
    LET keys == GroupKeys(frame)
    IN  [j \in 1..Len(keys) |->
            [index |-> j,
             cost_constraint_ratio |-> keys[j][1],
             chain_strength |-> keys[j][2],
             failed_routes_count |-> Len(Group(frame, keys[j]))]]

----------------------------------------------------------------------------
(* graph_storer.py: the Grid Plotter *)

NoGrid == [ok |-> FALSE, index |-> <<>>, columns |-> <<>>, values |-> <<>>]

NoFig == [open |-> FALSE, scatter |-> <<>>, arrows |-> <<>>]

\* Faulty variant: never rejects: the last row of a repeated (index, column) pair wins
PivotLastWins(frame, index, column, values) ==
    LET pairs == {<<x[index], x[column]>> : x \in Range(frame)}
    IN  [ok |-> TRUE,
         index |-> SortedSeq({x[index] : x \in Range(frame)}),
         columns |-> SortedSeq({x[column] : x \in Range(frame)}),
         values |-> [p \in pairs |->
             LET last == CHOOSE i \in DOMAIN frame :
                    /\ <<frame[i][index], frame[i][column]>> = p
                    /\ \A j \in DOMAIN frame :
                          <<frame[j][index], frame[j][column]>> = p => j <= i
             IN  frame[last][values]]]

\* DataFrame.pivot(index, columns, values): a ValueError when an (index, column)
\* pair occurs in two rows; otherwise the grid over the sorted distinct keys,
\* defined at the pairs that occur (the other cells are NaN)
Pivot(frame, index, column, values) ==
    LET pairs == {<<x[index], x[column]>> : x \in Range(frame)}
        dup == \E i, j \in DOMAIN frame :
                  /\ i < j
                  /\ frame[i][index] = frame[j][index]
                  /\ frame[i][column] = frame[j][column]
    IN  IF dup THEN NoGrid
        ELSE [ok |-> TRUE,
              index |-> SortedSeq({x[index] : x \in Range(frame)}),
              columns |-> SortedSeq({x[column] : x \in Range(frame)}),
              values |-> [p \in pairs |->
                  LET x == CHOOSE x \in Range(frame) :
                              <<x[index], x[column]>> = p
                  IN  x[values]]]

\* the result of a plotter call: raised, or the file it saved
Plotted(grid, kind, file_parts) ==
    IF ~grid.ok
    THEN [ok |-> FALSE, err |-> "ValueError", files |-> <<>>]
    ELSE [ok |-> TRUE, err |-> "",
          files |-> <<[path |-> "data/" \o file_parts[1] \o "_" \o kind \o "_"
                                  \o file_parts[2],
                       grid |-> grid, fig |-> NoFig]>>]

save_heatmap(frame, index, column, values, file_parts) ==
    Plotted(Pivot(frame, index, column, values), "heatmap", file_parts)

save_contour_plot(frame, index, column, values, file_parts) ==
    Plotted(Pivot(frame, index, column, values), "contours", file_parts)

----------------------------------------------------------------------------
(* route_storer.py: projection and the route figure *)

r_earth == 6371              \* r, radius of Earth in km
centre_point_cos == 85       \* cos(radians(centre_point_deg)), in hundredths

\* np.radians, in milliradians
Radians(deg) == (deg * 31416) \div 1800

\* __equi_rect_project: <<latitudes, longitudes>>, element by element
equi_rect_project(latitudes, longitudes) ==
    <<[i \in DOMAIN latitudes |-> r_earth * Radians(latitudes[i])],
      [i \in DOMAIN longitudes |->
          (r_earth * Radians(longitudes[i]) * centre_point_cos) \div 100]>>

\* the dict comprehension of __reformat_locations: a later entry with the same
\* order_id replaces an earlier one
orders_of(orders) ==
    [id \in {o.order_id : o \in Range(orders)} |->
        LET last == CHOOSE i \in DOMAIN orders :
                /\ orders[i].order_id = id
                /\ \A j \in DOMAIN orders : orders[j].order_id = id => j <= i
        IN  [lat |-> orders[last].lat, lon |-> orders[last].lon]]

\* __reformat_locations: RouteInput(**locations) raises on a file of the wrong shape
reformat_locations(file) ==
    IF ~file.valid
    THEN [ok |-> FALSE, lats |-> <<>>, longs |-> <<>>, orders |-> <<>>]
    ELSE LET p == equi_rect_project([i \in DOMAIN file.orders |-> file.orders[i].lat],
                                    [i \in DOMAIN file.orders |-> file.orders[i].lon])
         IN  [ok |-> TRUE, lats |-> p[1], longs |-> p[2],
              orders |-> orders_of(file.orders)]

NoEdges == [start_longs |-> <<>>, start_lat |-> <<>>,
            end_longs |-> <<>>, end_lats |-> <<>>]

\* Faulty variant: starts the inner loop one edge late
RECURSIVE CollectRoute(_, _, _, _)
SkipFirstEdge(routes, orders_dict) ==
    IF routes = <<>> THEN [ok |-> TRUE, edge |-> 0, key |-> 0, acc |-> NoEdges]
    ELSE CollectRoute(Head(routes), orders_dict, 2, NoEdges)

\* the inner loop of __add_lines: for i in range(len(route) - 1);
\* orders_dict[id] raises KeyError, first for start_id, then for end_id
CollectRoute(route, orders_dict, i, acc) ==
    IF i > Len(route) - 1 THEN [ok |-> TRUE, edge |-> 0, key |-> 0, acc |-> acc]
    ELSE LET start_id == route[i]
             end_id == route[i + 1]
         IN  IF start_id \notin DOMAIN orders_dict
             THEN [ok |-> FALSE, edge |-> i, key |-> start_id, acc |-> acc]
             ELSE IF end_id \notin DOMAIN orders_dict
             THEN [ok |-> FALSE, edge |-> i, key |-> end_id, acc |-> acc]
             ELSE CollectRoute(route, orders_dict, i + 1,
                    [start_longs |-> Append(acc.start_longs, orders_dict[start_id].lon),
                     start_lat |-> Append(acc.start_lat, orders_dict[start_id].lat),
                     end_longs |-> Append(acc.end_longs, orders_dict[end_id].lon),
                     end_lats |-> Append(acc.end_lats, orders_dict[end_id].lat)])

\* the outer loop of __add_lines: for route in routes
RECURSIVE CollectRoutes(_, _, _)
CollectRoutes(routes, orders_dict, acc) ==
    IF routes = <<>> THEN [ok |-> TRUE, edge |-> 0, key |-> 0, acc |-> acc]
    ELSE LET one == CollectRoute(Head(routes), orders_dict, 1, acc)
         IN  IF ~one.ok THEN one
             ELSE CollectRoutes(Tail(routes), orders_dict, one.acc)

collect_edges(routes, orders_dict) == CollectRoutes(routes, orders_dict, NoEdges)

\* __add_lines: the coordinate lists, their projection, then one annotate per edge
add_lines(routes, orders_dict) ==
    LET c == collect_edges(routes, orders_dict)
        s == equi_rect_project(c.acc.start_lat, c.acc.start_longs)
        e == equi_rect_project(c.acc.end_lats, c.acc.end_longs)
    IN  IF ~c.ok THEN [ok |-> FALSE, edge |-> c.edge, key |-> c.key, arrows |-> <<>>]
        ELSE [ok |-> TRUE, edge |-> 0, key |-> 0,
              arrows |-> [i \in 1..Len(s[1]) |->
                            [xy |-> <<e[2][i], e[1][i]>>,
                             xytext |-> <<s[2][i], s[1][i]>>]]]

\* create_graph: what it raised, the figure it leaves, the file it saved
create_graph(locations_file, route, folder_name, file_name) ==
    LET routes == <<route>>
        loc == reformat_locations(locations_file)
        scatter == [i \in DOMAIN loc.lats |-> <<loc.longs[i], loc.lats[i]>>]
        lines == add_lines(routes, loc.orders)
    IN  IF ~loc.ok
        THEN [ok |-> FALSE, err |-> "ValidationError", edge |-> 0, key |-> 0,
              fig |-> NoFig, files |-> <<>>]
        ELSE IF ~lines.ok
        THEN [ok |-> FALSE, err |-> "KeyError", edge |-> lines.edge, key |-> lines.key,
              fig |-> [open |-> TRUE, scatter |-> scatter, arrows |-> <<>>],
              files |-> <<>>]
        ELSE [ok |-> TRUE, err |-> "", edge |-> 0, key |-> 0,
              fig |-> NoFig,
              files |-> <<[path |-> "data/" \o folder_name \o "/" \o file_name \o ".png",
                           grid |-> NoGrid,
                           fig |-> [open |-> FALSE, scatter |-> scatter,
                                    arrows |-> lines.arrows]]>>]

----------------------------------------------------------------------------
(* post_processing.py: the driver *)

\* the text of a list of small integers, as the sweep stores it, in tokens
RECURSIVE route_items(_)
route_items(route) ==
    IF route = <<>> THEN <<>>
    ELSE IF Len(route) = 1 THEN <<ToString(route[1])>>
    ELSE <<ToString(Head(route)), ", ">> \o route_items(Tail(route))

route_text(route) == <<"[">> \o route_items(route) \o <<"]">>

\* ast.literal_eval of such a text: the items between the brackets, as integers
literal_eval(text) ==
    [i \in 1..((Len(text) - 1) \div 2) |->
        CHOOSE n \in 0..9 : ToString(n) = text[2 * i]]

\* Faulty variant: leaves the trial index out of the name
FilenameNoTrial(row) ==
    ToString(row.cost_constraint_ratio) \o "_" \o ToString(row.chain_strength)
        \o "_" \o ToString(row.relative_cost)

\* f"{cost_constraint_ratio}_{chain_strength}_{trial}_{relative_cost}", each by str()
filename(row) ==
    ToString(row.cost_constraint_ratio) \o "_" \o ToString(row.chain_strength)
        \o "_" \o ToString(row.trial) \o "_" \o ToString(row.relative_cost)

\* Faulty variant: walks the rows last to first
Backwards(frame) == [i \in DOMAIN frame |-> frame[Len(frame) + 1 - i]]

\* df.iterrows(): the rows in frame order
iterrows(frame) == frame

Handed(fn, prefix, frame) == [fn |-> fn, prefix |-> prefix, frame |-> frame]

\* a heatmap then a contour plot of one table; the second call is not made
\* when the first raised
BothPlots(frame, prefix) ==
    LET h == save_heatmap(frame, "cost_constraint_ratio", "chain_strength",
                          "relative_cost", <<prefix, OutputFile>>)
        c == save_contour_plot(frame, "cost_constraint_ratio", "chain_strength",
                               "relative_cost", <<prefix, OutputFile>>)
    IN  IF ~h.ok
        THEN [ok |-> FALSE, err |-> h.err, files |-> <<>>,
              handed |-> <<Handed("save_heatmap", prefix, frame)>>]
        ELSE [ok |-> c.ok, err |-> c.err, files |-> h.files \o c.files,
              handed |-> <<Handed("save_heatmap", prefix, frame),
                           Handed("save_contour_plot", prefix, frame)>>]

\* post_process, lines 30-35
Start ==
    /\ pc = "start"
    /\ df' = read_csv(csv)
    /\ success_df' = Successful(read_csv(csv))
    /\ pc' = "average"
    /\ UNCHANGED <<csv, locations, call, idx, handed, data, fig, k, err>>

Average ==
    /\ pc = "average"
    /\ LET p == BothPlots(average_df(success_df), "avg")
       IN  /\ handed' = handed \o p.handed
           /\ data' = data \o p.files
           /\ err' = p.err
           /\ pc' = IF p.ok THEN "best" ELSE "error"
    /\ UNCHANGED <<csv, locations, call, df, success_df, idx, fig, k>>

Best ==
    /\ pc = "best"
    /\ idx' = best_idx(success_df)
    /\ LET p == BothPlots(min_relative_cost_df(success_df, best_idx(success_df)),
                          "best")
       IN  /\ handed' = handed \o p.handed
           /\ data' = data \o p.files
           /\ err' = p.err
           /\ pc' = IF p.ok THEN "failed_occurences" ELSE "error"
    /\ UNCHANGED <<csv, locations, call, df, success_df, fig, k>>

FailedOccurences ==
    /\ pc = "failed_occurences"
    /\ LET failed_routes_df == Failed(df)
           counts == failed_routes_count(failed_routes_df)
           h == save_heatmap(counts, "cost_constraint_ratio", "chain_strength",
                             "failed_routes_count", <<"fails", OutputFile>>)
       IN  IF not_empty(failed_routes_df)
           THEN /\ handed' = Append(handed, Handed("save_heatmap", "fails", counts))
                /\ data' = data \o h.files
                /\ err' = h.err
                /\ pc' = IF h.ok THEN "visualise" ELSE "error"
           ELSE /\ pc' = "visualise"
                /\ UNCHANGED <<handed, data, err>>
    /\ UNCHANGED <<csv, locations, call, df, success_df, idx, fig, k>>

\* one iteration of the loop of visualise_deliveries
VisualiseRow ==
    /\ pc = "visualise"
    /\ k < Len(df)
    /\ LET row == iterrows(df)[k + 1]
           g == create_graph(locations, literal_eval(row.route), "routes",
                             filename(row))
       IN  /\ data' = data \o g.files
           /\ fig' = g.fig
           /\ err' = g.err
           /\ pc' = IF g.ok THEN "visualise" ELSE "error"
    /\ k' = k + 1
    /\ UNCHANGED <<csv, locations, call, df, success_df, idx, handed>>

\* the loop is exhausted: visualise_deliveries and post_process return
Finish ==
    /\ pc = "visualise"
    /\ k = Len(df)
    /\ pc' = "done"
    /\ UNCHANGED <<csv, locations, call, df, success_df, idx, handed, data, fig, k, err>>

Next == Start \/ Average \/ Best \/ FailedOccurences \/ VisualiseRow \/ Finish

----------------------------------------------------------------------------
(* direct calls of the components *)

CreateGraphCall ==
    /\ pc = "create_graph"
    /\ LET g == create_graph(locations, call.route, "routes", "route")
       IN  /\ data' = data \o g.files
           /\ fig' = g.fig
           /\ err' = g.err
           /\ pc' = IF g.ok THEN "returned" ELSE "raised"
    /\ UNCHANGED <<csv, locations, call, df, success_df, idx, handed, k>>

NextRoute == CreateGraphCall

PlotCall(p, fn) ==
    /\ pc = "plot"
    /\ handed' = Append(handed, Handed(fn, "plot", call.table))
    /\ data' = data \o p.files
    /\ err' = p.err
    /\ pc' = IF p.ok THEN "returned" ELSE "raised"
    /\ UNCHANGED <<csv, locations, call, df, success_df, idx, fig, k>>

SaveHeatmapCall ==
    PlotCall(save_heatmap(call.table, "cost_constraint_ratio", "chain_strength",
                          "relative_cost", <<"plot", OutputFile>>), "save_heatmap")

SaveContourCall ==
    PlotCall(save_contour_plot(call.table, "cost_constraint_ratio", "chain_strength",
                               "relative_cost", <<"plot", OutputFile>>),
             "save_contour_plot")

NextPlot == SaveHeatmapCall \/ SaveContourCall

----------------------------------------------------------------------------
(* initial states: the files a run or a call is given *)

Row(cell, trial, cost, route) ==
    [cost_constraint_ratio |-> cell[1], chain_strength |-> cell[2],
     trial |-> trial, relative_cost |-> cost, route |-> route_text(route)]

Order(id, lat, lon) == [order_id |-> id, lat |-> lat, lon |-> lon]

FixedOrders == <<Order(1, -32, 115), Order(2, -31, 116)>>

NoCall == [route |-> <<>>, table |-> <<>>]

Fresh ==
    /\ df = <<>>
    /\ success_df = <<>>
    /\ idx = <<>>
    /\ handed = <<>>
    /\ data = <<>>
    /\ fig = NoFig
    /\ k = 0
    /\ err = ""

\* two successful records of different ratio and different strength: a table
\* that holds them pivots to a grid of two rows and two columns
GridRows(cell1, cell2) ==
    <<Row(cell1, 0, 1, <<1, 2>>), Row(cell2, 0, 1, <<1, 2>>)>>

\* a run whose rows may share cells, trial indexes and file names, over a
\* locations file that may be of the wrong shape
Init ==
    /\ \E rows \in SeqsUpTo({Row(c, t, v, rt) : c \in RunCells, t \in Trials,
                                                 v \in RunCosts, rt \in RunRoutes},
                             MaxRunRows) :
          csv = rows \o GridRows(<<1, 1>>, <<2, 2>>)
    /\ locations \in {[valid |-> TRUE, orders |-> FixedOrders],
                      [valid |-> FALSE, orders |-> <<>>]}
    /\ call = NoCall
    /\ pc = "start"
    /\ Fresh

\* a run over more rows and costs, every route known
InitAgg ==
    /\ \E rows \in SeqsUpTo({Row(c, 0, v, <<1, 2>>) : c \in Cells,
                                                       v \in -1..MaxCost},
                             MaxRows) :
          csv = rows \o GridRows(<<1, 2>>, <<2, 1>>)
    /\ locations = [valid |-> TRUE, orders |-> FixedOrders]
    /\ call = NoCall
    /\ pc = "start"
    /\ Fresh

\* one call of create_graph
InitRoute ==
    /\ csv = <<>>
    /\ locations \in
          {[valid |-> TRUE, orders |-> o] :
              o \in SeqsUpTo({Order(id, lat, lon) : id \in OrderIds, lat \in Lats,
                                                    lon \in Lons}, MaxOrders)}
          \cup {[valid |-> FALSE, orders |-> <<>>]}
    /\ call \in {[route |-> rt, table |-> <<>>] : rt \in SeqsUpTo(RouteIds, MaxRouteLen)}
    /\ pc = "create_graph"
    /\ Fresh

\* one call of save_heatmap or save_contour_plot
InitPlot ==
    /\ csv = <<>>
    /\ locations = [valid |-> TRUE, orders |-> FixedOrders]
    /\ call \in {[route |-> <<>>, table |-> t] :
                    t \in {u \in SeqsUpTo([cost_constraint_ratio : PlotKeys,
                                           chain_strength : PlotKeys,
                                           relative_cost : PlotValues],
                                          MaxTableRows) :
                              /\ {x.cost_constraint_ratio : x \in Range(u)} = PlotKeys
                              /\ {x.chain_strength : x \in Range(u)} = PlotKeys}}
    /\ pc = "plot"
    /\ Fresh

Spec == Init /\ [][Next]_vars

SpecAgg == InitAgg /\ [][Next]_vars

SpecRoute == InitRoute /\ [][NextRoute]_vars

SpecPlot == InitPlot /\ [][NextPlot]_vars

----------------------------------------------------------------------------
(* What the claims speak about, read off the inputs and the logs *)

Pair(row) == <<row.cost_constraint_ratio, row.chain_strength>>

\* positions of the input rows of a pair that succeeded / failed
SuccessOf(pair) == {i \in DOMAIN csv : Pair(csv[i]) = pair /\ csv[i].relative_cost # -1}
FailureOf(pair) == {i \in DOMAIN csv : Pair(csv[i]) = pair /\ csv[i].relative_cost = -1}

InputPairs == {Pair(csv[i]) : i \in DOMAIN csv}

RECURSIVE CostSum(_)
CostSum(S) ==
    IF S = {} THEN 0
    ELSE LET i == CHOOSE i \in S : TRUE
         IN  csv[i].relative_cost + CostSum(S \ {i})

\* the frames handed to the Grid Plotter under a prefix
HandedAs(prefix) == SelectSeq(handed, LAMBDA h : h.prefix = prefix)

RowPairs(frame) == {Pair(frame[i]) : i \in DOMAIN frame}

OneRowPerPair(frame) ==
    \A i, j \in DOMAIN frame : Pair(frame[i]) = Pair(frame[j]) => i = j

PathsOf(writes) == [i \in DOMAIN writes |-> writes[i].path]

AggregateWrites == SelectSeq(data, LAMBDA w : w.grid.ok)
RouteWrites == SelectSeq(data, LAMBDA w : ~w.grid.ok)

ImagePath(row) ==
    "data/routes/" \o ToString(row.cost_constraint_ratio) \o "_"
        \o ToString(row.chain_strength) \o "_" \o ToString(row.trial) \o "_"
        \o ToString(row.relative_cost) \o ".png"

AggregatePaths ==
    <<"data/avg_heatmap_test1", "data/avg_contours_test1",
      "data/best_heatmap_test1", "data/best_contours_test1">>
        \o (IF \E i \in DOMAIN csv : csv[i].relative_cost = -1
            THEN <<"data/fails_heatmap_test1">> ELSE <<>>)

IsPrefix(s, t) == Len(s) <= Len(t) /\ \A i \in DOMAIN s : s[i] = t[i]

AfterAggregates == pc \in {"visualise", "done"} \/ (pc = "error" /\ k >= 1)

KnownIds == {locations.orders[i].order_id : i \in DOMAIN locations.orders}

Called == pc \in {"returned", "raised"}

----------------------------------------------------------------------------
(* C1: create_graph on a route whose ids are all order_ids of the locations
   saves a figure with len(route)-1 arrows (none for a route of 0 or 1 stops);
   arrow i starts at the scatter point of an entry whose order_id is route[i]
   and ends at the scatter point of an entry whose order_id is route[i+1]. *)
C1_ArrowsFollowRoute ==
    (Called /\ locations.valid /\ Range(call.route) \subseteq KnownIds) =>
        /\ pc = "returned"
        /\ Len(data) = 1
        /\ LET f == data[1].fig
               n == Len(call.route)
           IN  /\ Len(f.arrows) = (IF n <= 1 THEN 0 ELSE n - 1)
               /\ Len(f.scatter) = Len(locations.orders)
               /\ \A i \in DOMAIN f.arrows :
                    \E a, b \in DOMAIN locations.orders :
                        /\ locations.orders[a].order_id = call.route[i]
                        /\ locations.orders[b].order_id = call.route[i + 1]
                        /\ f.arrows[i].xytext = f.scatter[a]
                        /\ f.arrows[i].xy = f.scatter[b]

C1_Witness ==
    /\ pc = "returned"
    /\ Len(call.route) = 3
    /\ call.route[1] # call.route[2]
    /\ Len(data) = 1
    /\ Len(data[1].fig.arrows) = 2
    /\ data[1].fig.arrows[1].xy # data[1].fig.arrows[1].xytext

(* C8: a route naming an id that is no order_id makes create_graph raise a
   lookup error, with no arrow drawn and no image written; a route of one
   stop whose id is unknown is such a route. *)
C8_UnknownIdRaises ==
    (Called /\ locations.valid /\ ~(Range(call.route) \subseteq KnownIds)) =>
        /\ pc = "raised"
        /\ err = "KeyError"
        /\ fig.arrows = <<>>
        /\ data = <<>>

(* C8, for routes of two or more stops: the lookup of the first unknown id
   of the first edge that touches one raises KeyError, with no arrow drawn
   and no image written. *)
C8_EdgeLookupRaises ==
    (Called /\ locations.valid /\ Len(call.route) >= 2
            /\ ~(Range(call.route) \subseteq KnownIds)) =>
        /\ pc = "raised"
        /\ err = "KeyError"
        /\ fig.arrows = <<>>
        /\ fig.open
        /\ data = <<>>

----------------------------------------------------------------------------
(* C2: the best table has exactly one record per pair that has a successful
   record; it is the input record of the pair with the least relative_cost
   among the pair's successful records, the first such in input order. *)
C2_BestIsFirstMinimum ==
    \A h \in Range(HandedAs("best")) :
        /\ RowPairs(h.frame) = {p \in InputPairs : SuccessOf(p) # {}}
        /\ OneRowPerPair(h.frame)
        /\ Len(idx) = Len(h.frame)
        /\ \A j \in DOMAIN h.frame :
              LET i == idx[j]
                  S == SuccessOf(Pair(h.frame[j]))
              IN  /\ i \in S
                  /\ \A m \in S : csv[i].relative_cost <= csv[m].relative_cost
                  /\ \A m \in S : csv[m].relative_cost = csv[i].relative_cost => i <= m
                  /\ h.frame[j].relative_cost = csv[i].relative_cost
                  /\ h.frame[j].trial = csv[i].trial
                  /\ h.frame[j].route = csv[i].route

C2_Witness ==
    /\ pc = "done"
    /\ Len(csv) = 5
    /\ Pair(csv[1]) = Pair(csv[2]) /\ Pair(csv[2]) = Pair(csv[3])
    /\ csv[1].relative_cost = 1 /\ csv[2].relative_cost = 0 /\ csv[3].relative_cost = 0
    /\ idx = <<2, 4, 5>>

(* C3: the failures table has exactly one row per pair that has a record with
   relative_cost = -1, counting those records; a pair without one has no row. *)
C3_FailureCounts ==
    /\ \A h \in Range(HandedAs("fails")) :
          /\ RowPairs(h.frame) = {p \in InputPairs : FailureOf(p) # {}}
          /\ OneRowPerPair(h.frame)
          /\ \A j \in DOMAIN h.frame :
                /\ h.frame[j].failed_routes_count
                      = Cardinality(FailureOf(Pair(h.frame[j])))
                /\ h.frame[j].failed_routes_count > 0
    /\ AfterAggregates =>
          Len(HandedAs("fails"))
              = (IF \E p \in InputPairs : FailureOf(p) # {} THEN 1 ELSE 0)

C3_Witness ==
    /\ pc = "done"
    /\ Len(csv) = 5
    /\ \E h \in Range(HandedAs("fails")) :
          /\ Len(h.frame) = 1
          /\ h.frame[1].failed_routes_count = 2
    /\ \E p \in InputPairs : FailureOf(p) = {} /\ SuccessOf(p) # {}

(* C4: the average table has exactly one row per pair that has a successful
   record; its value is the sum over the count of the relative_cost of that
   pair's successful records, failed records left out. *)
C4_AverageOfSuccesses ==
    \A h \in Range(HandedAs("avg")) :
        /\ RowPairs(h.frame) = {p \in InputPairs : SuccessOf(p) # {}}
        /\ OneRowPerPair(h.frame)
        /\ \A j \in DOMAIN h.frame :
              LET S == SuccessOf(Pair(h.frame[j]))
                  mean == h.frame[j].relative_cost
              IN  /\ mean[2] > 0
                  /\ mean[1] * Cardinality(S) = CostSum(S) * mean[2]

C4_Witness ==
    /\ pc = "done"
    /\ \E p \in InputPairs :
          /\ Cardinality(SuccessOf(p)) = 2
          /\ Cardinality(FailureOf(p)) = 1
          /\ \E h \in Range(HandedAs("avg")) : \E j \in DOMAIN h.frame :
                Pair(h.frame[j]) = p /\ h.frame[j].relative_cost = <<1, 2>>

(* C10: every frame the driver hands to the Grid Plotter has at most one row
   per (cost_constraint_ratio, chain_strength) pair, and the pivot never
   rejects a frame of a driver run. *)
C10_NoDuplicateCells ==
    /\ \A h \in Range(handed) : OneRowPerPair(h.frame)
    /\ err # "ValueError"

C10_Witness ==
    /\ pc = "done"
    /\ Len(csv) = 5
    /\ csv[1] = csv[2]
    /\ csv[3].relative_cost = -1
    /\ Len(handed) = 5

----------------------------------------------------------------------------
Tuple(row) == <<row.cost_constraint_ratio, row.chain_strength, row.trial,
                row.relative_cost>>

(* C5: a completed run has written as many distinct files under data/routes
   as the input has rows, row i's image being named
   <cost_constraint_ratio>_<chain_strength>_<trial>_<relative_cost>.png, and
   no row's image is overwritten by another row's. *)
C5_OneImagePerRow ==
    pc = "done" =>
        /\ Len(RouteWrites) = Len(csv)
        /\ \A i \in DOMAIN RouteWrites : RouteWrites[i].path = ImagePath(csv[i])
        /\ Cardinality(Range(PathsOf(RouteWrites))) = Len(csv)
        /\ \A i, j \in DOMAIN RouteWrites :
              RouteWrites[i].path = RouteWrites[j].path => i = j

(* C5, amended: a completed run has made one write per row, row i's under the
   name <cost_constraint_ratio>_<chain_strength>_<trial>_<relative_cost>.png;
   two rows write the same file exactly when they agree on all four values,
   so the distinct files are as many as the distinct value tuples. *)
C5_OneImagePerTuple ==
    pc = "done" =>
        /\ Len(RouteWrites) = Len(csv)
        /\ \A i \in DOMAIN RouteWrites : RouteWrites[i].path = ImagePath(csv[i])
        /\ \A i, j \in DOMAIN RouteWrites :
              RouteWrites[i].path = RouteWrites[j].path
                  <=> Tuple(csv[i]) = Tuple(csv[j])
        /\ Cardinality(Range(PathsOf(RouteWrites)))
              = Cardinality({Tuple(csv[i]) : i \in DOMAIN csv})

C5_Witness ==
    /\ pc = "done"
    /\ Len(csv) = 4
    /\ Tuple(csv[1]) = Tuple(csv[2])
    /\ csv[1].route # csv[2].route
    /\ Len(RouteWrites) = 4
    /\ Cardinality(Range(PathsOf(RouteWrites))) < 4

(* C6: once failed_occurences has returned, the aggregate files written are
   the avg heatmap, the avg contour, the best heatmap and the best contour,
   then the fails heatmap if and only if some record has relative_cost = -1;
   no fails contour is ever written; without a failing record no aggregate
   stage raises and the run goes on to the routes. *)
C6_AggregateArtifacts ==
    /\ \A i \in DOMAIN data : data[i].path # "data/fails_contours_test1"
    /\ \A h \in Range(handed) : ~(h.prefix = "fails" /\ h.fn = "save_contour_plot")
    /\ AfterAggregates => PathsOf(AggregateWrites) = AggregatePaths
    /\ ~AfterAggregates => IsPrefix(PathsOf(AggregateWrites), AggregatePaths)
    /\ (pc = "error" /\ \A i \in DOMAIN csv : csv[i].relative_cost # -1) => k >= 1

C6_Witness ==
    /\ pc = "done"
    /\ Len(csv) = 4
    /\ \A i \in DOMAIN csv : csv[i].relative_cost # -1
    /\ Len(AggregateWrites) = 4
    /\ Len(RouteWrites) = 4

(* C9: the files appear in the order avg plots, best plots, failure plot,
   then the route image of each row in input order; a failed render ends the
   run for good, with every aggregate plot written, a route image written
   for each row before the failing one and for no other. *)
C9_StagesInOrder ==
    /\ data = AggregateWrites \o RouteWrites
    /\ IsPrefix(PathsOf(AggregateWrites), AggregatePaths)
    /\ RouteWrites # <<>> => PathsOf(AggregateWrites) = AggregatePaths
    /\ Len(RouteWrites) <= Len(csv)
    /\ \A i \in DOMAIN RouteWrites :
          /\ RouteWrites[i].path = ImagePath(csv[i])
          /\ Len(RouteWrites[i].fig.arrows) = Len(literal_eval(csv[i].route)) - 1
          /\ \E a \in DOMAIN locations.orders :
                /\ locations.orders[a].order_id = literal_eval(csv[i].route)[1]
                /\ RouteWrites[i].fig.arrows[1].xytext = RouteWrites[i].fig.scatter[a]
    /\ pc \in {"visualise", "done"} => Len(RouteWrites) = k
    /\ (pc = "error" /\ k >= 1) =>
          /\ PathsOf(AggregateWrites) = AggregatePaths
          /\ Len(RouteWrites) = k - 1
          /\ ~ENABLED Next

C9_Witness ==
    /\ pc = "error"
    /\ err = "KeyError"
    /\ k = 2
    /\ Len(csv) = 4
    /\ Len(RouteWrites) = 1
    /\ csv[1].relative_cost = -1
    /\ Len(AggregateWrites) = 5

----------------------------------------------------------------------------
HasDuplicateCell(table) ==
    \E i, j \in DOMAIN table : i < j /\ Pair(table[i]) = Pair(table[j])

LastOf(table, pair) ==
    CHOOSE i \in DOMAIN table :
        /\ Pair(table[i]) = pair
        /\ \A j \in DOMAIN table : Pair(table[j]) = pair => j <= i

(* C7: given a table with two rows of the same (row_key, col_key) pair,
   save_heatmap and save_contour_plot do not crash, and the grid cell of the
   pair holds the value of the last such row. *)
C7_LastWriteWins ==
    (Called /\ HasDuplicateCell(call.table)) =>
        /\ pc = "returned"
        /\ Len(data) = 1
        /\ \A p \in RowPairs(call.table) :
              data[1].grid.values[p]
                  = call.table[LastOf(call.table, p)].relative_cost

(* C7, amended: given a table with two rows of the same (row_key, col_key)
   pair, save_heatmap and save_contour_plot raise the pivot's ValueError:
   no grid is built and no file is written. *)
C7_DuplicateCellRejected ==
    (Called /\ HasDuplicateCell(call.table)) =>
        /\ pc = "raised"
        /\ err = "ValueError"
        /\ data = <<>>

C7_Witness ==
    /\ pc = "raised"
    /\ Len(call.table) = 3
    /\ Pair(call.table[1]) = Pair(call.table[2])
    /\ call.table[1].relative_cost # call.table[2].relative_cost
    /\ data = <<>>

====
